---- MODULE Spec2Model ----
(***************************************************************************)
(* Language detection and auto-redirect controller of the civil resistance *)
(* guide (src/language-detection.js).  One page visit is modelled: the     *)
(* script's top-level run, init(), the 1-second interval callback, the     *)
(* 5-second backup timeout callback, the click listeners and the           *)
(* beforeunload listener, against a host timer table, the session store    *)
(* and the presentation elements the script touches.                       *)
(*                                                                         *)
(* JavaScript strings handled by the resolver are sequences of one-letter  *)
(* strings, so that toLowerCase, split('-')[0] and includes('farsi') are   *)
(* computed letter by letter as the code computes them.                    *)
(***************************************************************************)
EXTENDS Integers, Sequences, FiniteSets, TLC

VARIABLES
    browserLangs,        \* navigator.languages: a sequence of locale tags
    readyState,          \* document.readyState when the script runs
    pc,                  \* "start" | "waiting" (DOMContentLoaded pending) | "inited"
                         \* | "aborted" (top-level init() threw) | "dead" (line 197 threw)
    countdownInterval,   \* handle variable, line 34 (0 is null)
    redirectTimeout,     \* handle variable, line 35 (0 is null)
    detectedLang,        \* line 36
    timeLeft,            \* closure variable of startCountdown, line 102
    timers,              \* host timer table: the scheduled interval / timeout
    nextTimerId,         \* next id the host hands out
    sessionStorage,      \* languageDetectionDone and preferredLanguage slots
    detectionText,       \* elements.detectionText content
    detectedSuccess,     \* elements.detectedLanguage has class 'success'
    recommended,         \* language buttons carrying class 'recommended'
    countdownText,       \* elements.countdown.textContent (-1: never written)
    noticeActive,        \* elements.autoRedirectNotice has class 'active'
    navigations,         \* pages assigned to window.location.href, in order
    lastOp,              \* the last handler that ran and its effects, in order
    intervalRuns,        \* number of runs of the interval callback
    timeoutRuns,         \* number of runs of the backup timeout callback
    flagAtInit,          \* what init() read from languageDetectionDone
    cancelAt,            \* which control stopped a running countdown: "none" | "cancel" | "manual"
    manualChoice,        \* data-lang of the manual click that stopped a running countdown
    unloadRan,           \* the beforeunload listener has run
    present,             \* the presentation elements the page holds
    flagWrite,           \* init()'s languageDetectionDone write: "none" | "stored" | "failed"
    checklist            \* main.js: the checklist page and its durable store entry

vars == <<browserLangs, readyState, pc, countdownInterval, redirectTimeout,
          detectedLang, timeLeft, timers, nextTimerId, sessionStorage,
          detectionText, detectedSuccess, recommended, countdownText,
          noticeActive, navigations, lastOp, intervalRuns, timeoutRuns,
          flagAtInit, cancelAt, manualChoice, unloadRan, present,
          flagWrite, checklist>>

----------------------------------------------------------------------------
(* Strings *)

\* The null of a string-valued slot: no JavaScript string equals it.
Null == <<"null">>

UpperLetters == <<"A","B","C","D","E","F","G","H","I","J","K","L","M",
                  "N","O","P","Q","R","S","T","U","V","W","X","Y","Z">>
LowerLetters == <<"a","b","c","d","e","f","g","h","i","j","k","l","m",
                  "n","o","p","q","r","s","t","u","v","w","x","y","z">>

\* String.prototype.toLowerCase, one letter
LowerChar(c) ==
    IF \E i \in 1..Len(UpperLetters) : UpperLetters[i] = c
    THEN LowerLetters[CHOOSE i \in 1..Len(UpperLetters) : UpperLetters[i] = c]
    ELSE c

\* lang.toLowerCase()
ToLowerCase(s) == [i \in 1..Len(s) |-> LowerChar(s[i])]

\* s.split('-')[0]: the text before the first hyphen (all of s if none)
SplitFirst(s) ==
    IF \E i \in 1..Len(s) : s[i] = "-"
    THEN SubSeq(s, 1, (CHOOSE i \in 1..Len(s) :
                          s[i] = "-" /\ \A j \in 1..(i-1) : s[j] # "-") - 1)
    ELSE s

\* s.includes(sub)
Includes(s, sub) ==
    \E i \in 1..(Len(s) - Len(sub) + 1) : SubSeq(s, i, i + Len(sub) - 1) = sub

EN == <<"e","n">>
UK == <<"u","k">>
FA == <<"f","a">>
PER == <<"p","e","r">>
UKR == <<"u","k","r">>
FARSI == <<"f","a","r","s","i">>

----------------------------------------------------------------------------
(* Configuration *)

\* Own keys of LANGUAGE_CONFIG
ConfigKeys == {EN, UK, FA}

\* Property names LANGUAGE_CONFIG inherits from Object.prototype (it is an
\* object literal): a bracket lookup finds these too, with a truthy value.
ObjectPrototypeKeys ==
    { <<"c","o","n","s","t","r","u","c","t","o","r">>,
      <<"_","_","p","r","o","t","o","_","_">>,
      <<"t","o","S","t","r","i","n","g">>,
      <<"v","a","l","u","e","O","f">> }

\* Truthiness of LANGUAGE_CONFIG[langCode]
ConfigTruthy(langCode) == langCode \in ConfigKeys \cup ObjectPrototypeKeys

\* LANGUAGE_CONFIG[langCode].page; an inherited value has no page property,
\* and assigning undefined to location.href navigates to "undefined".
Page(langCode) ==
    IF langCode = EN THEN "en.html"
    ELSE IF langCode = UK THEN "uk.html"
    ELSE IF langCode = FA THEN "fa.html"
    ELSE "undefined"

DEFAULT_LANGUAGE == EN

REDIRECT_COUNTDOWN == 5

----------------------------------------------------------------------------
(* Resolver *)

\* MatchTag without the toLowerCase() calls
MatchTag_CaseSensitive(lang) ==
    LET langCode == SplitFirst(lang) IN
    IF ConfigTruthy(langCode) THEN langCode
    ELSE IF langCode = FA \/ langCode = PER \/ Includes(lang, FARSI)
         THEN FA
    ELSE IF langCode = UK \/ langCode = UKR THEN UK
    ELSE Null

\* The body of the for loop for one tag: the code returned, or Null when the
\* loop goes on to the next tag.
MatchTag(lang) ==
    LET langCode == SplitFirst(ToLowerCase(lang)) IN
    IF ConfigTruthy(langCode) THEN langCode
    ELSE IF langCode = FA \/ langCode = PER \/ Includes(ToLowerCase(lang), FARSI)
         THEN FA
    ELSE IF langCode = UK \/ langCode = UKR THEN UK
    ELSE Null

RECURSIVE DetectFrom(_, _)
DetectFrom(langs, i) ==
    IF i > Len(langs) THEN DEFAULT_LANGUAGE
    ELSE IF MatchTag(langs[i]) # Null THEN MatchTag(langs[i])
    ELSE DetectFrom(langs, i + 1)

detectBrowserLanguage(langs) == DetectFrom(langs, 1)

----------------------------------------------------------------------------
(* Inputs of a visit *)

\* Longest navigator.languages list the resolver is run on
MaxLangs == 3

\* Locale tags a browser may report (navigator.languages entries)
Tags ==
    { <<"e","n","-","U","S">>,
      <<"U","K">>,
      <<"f","a","-","I","R">>,
      <<"p","e","r">>,
      <<"u","k","r">>,
      <<"x","-","F","a","r","s","i">>,
      <<"d","e","-","D","E">>,
      <<"f","r","-","F","R">>,
      <<"c","o","n","s","t","r","u","c","t","o","r">>,
      <<"c","o","n","s","t","r","u","c","t","o","r","-","f","a","r","s","i">> }

\* Every list the resolver is run on
LangLists == UNION { [1..n -> Tags] : n \in 0..MaxLangs }

\* The lists a full visit is played with: one per kind of resolver outcome
\* (default, exact, alias, exact after an unsupported tag, inherited name)
VisitLangLists ==
    { <<>>,
      << <<"U","K">> >>,
      << <<"p","e","r">>, <<"e","n","-","U","S">> >>,
      << <<"d","e","-","D","E">>, <<"f","a","-","I","R">> >>,
      << <<"c","o","n","s","t","r","u","c","t","o","r">> >> }

\* data-lang attributes of the .language-btn controls
ButtonLangs == {EN, UK, FA}

----------------------------------------------------------------------------
(* Presentation texts *)

InitialText == [text |-> "initial", lang |-> Null]
DetectedText(langCode) == [text |-> "detected as your preferred language", lang |-> langCode]
AlreadyDoneText == [text |-> "Please choose your preferred language", lang |-> Null]
ManualText == [text |-> "Please choose your preferred language manually", lang |-> Null]

----------------------------------------------------------------------------
(* Effects of a handler, in the order the code performs them *)

Effect(e, code, ok) == [e |-> e, code |-> code, ok |-> ok]

\* sessionStorage.setItem inside try/catch: a throwing write changes nothing
RECURSIVE ApplyStorage(_, _)
ApplyStorage(store, effects) ==
    IF effects = <<>> THEN store
    ELSE LET f == Head(effects)
             next == IF f.e = "setPref" /\ f.ok
                         THEN [store EXCEPT !.preferredLanguage = f.code]
                     ELSE IF f.e = "setFlag" /\ f.ok
                         THEN [store EXCEPT !.languageDetectionDone = "true"]
                     ELSE store
         IN ApplyStorage(next, Tail(effects))

\* the navigation lost when the preference write before it throws
RECURSIVE ApplyNavigation_AbortOnFailedWrite(_, _)
ApplyNavigation_AbortOnFailedWrite(navs, effects) ==
    IF effects = <<>> THEN navs
    ELSE IF Head(effects).e = "setPref" /\ ~Head(effects).ok THEN navs
    ELSE ApplyNavigation_AbortOnFailedWrite(
             IF Head(effects).e = "navigate"
                 THEN Append(navs, Page(Head(effects).code)) ELSE navs,
             Tail(effects))

\* window.location.href = page, for every navigate effect
RECURSIVE ApplyNavigation(_, _)
ApplyNavigation(navs, effects) ==
    IF effects = <<>> THEN navs
    ELSE ApplyNavigation(
             IF Head(effects).e = "navigate"
                 THEN Append(navs, Page(Head(effects).code)) ELSE navs,
             Tail(effects))

\* performRedirect that navigates without storing the preference
performRedirect_NavigateOnly(langCode, ok) ==
    << Effect("navigate", langCode, TRUE) >>

\* performRedirect(langCode): the preference write, then the navigation
performRedirect(langCode, ok) ==
    << Effect("setPref", langCode, ok), Effect("navigate", langCode, TRUE) >>

----------------------------------------------------------------------------
(* Host timers *)

Timer(id, kind, langCode) == [id |-> id, kind |-> kind, lang |-> langCode]

\* clearInterval(handle) / clearTimeout(handle): one id space
ClearTimer(table, handle) == { t \in table : t.id # handle }

\* the countdown is running: both timers pending, no redirect yet
Running ==
    /\ navigations = <<>>
    /\ timeLeft \in 1..REDIRECT_COUNTDOWN
    /\ \E t \in timers : t.kind = "interval"
    /\ \E t \in timers : t.kind = "timeout"

----------------------------------------------------------------------------
(* Presentation elements *)

\* ids looked up by document.getElementById and used by the script
Elements ==
    {"detectionText", "detectedLanguage", "autoRedirectNotice", "countdown",
     "cancelRedirect"}

\* updateDetectionUI dereferences detectionText, then detectedLanguage
UpdateUIThrows == ~({"detectionText", "detectedLanguage"} \subseteq present)

\* startCountdown dereferences countdown, then autoRedirectNotice, before it
\* schedules the timers
CountdownThrows == ~({"countdown", "autoRedirectNotice"} \subseteq present)

\* cancelAutoRedirect dereferences autoRedirectNotice, then detectionText,
\* after it cleared the timers
CancelThrows == ~({"autoRedirectNotice", "detectionText"} \subseteq present)

\* init() throws: the session store read (outside any try), or an element
\* dereferenced on the path taken
InitThrows(readOk) ==
    \/ ~readOk
    \/ IF sessionStorage.languageDetectionDone = "true"
       THEN "detectionText" \notin present
       ELSE UpdateUIThrows \/ CountdownThrows

----------------------------------------------------------------------------
(* Checklist page (main.js): state *)

\* Number of checkboxes of the checklist page
NumCheckboxes == 3

\* index of a checkbox in querySelectorAll order: its key is checkbox-<index>
CheckboxIndex == 0..(NumCheckboxes - 1)

\* The page before main.js runs: no stored entry, every box as in the markup
ChecklistStart ==
    [ stored  |-> FALSE,
      json    |-> <<>>,
      checked |-> [i \in CheckboxIndex |-> FALSE],
      loaded  |-> FALSE,
      op      |-> [op |-> "none", index |-> 0] ]

----------------------------------------------------------------------------
(* Initial state: the page before the script runs *)

InitRest ==
    /\ readyState \in {"loading", "complete"}
    /\ pc = "start"
    /\ countdownInterval = 0
    /\ redirectTimeout = 0
    /\ detectedLang = Null
    /\ timeLeft = 0
    /\ timers = {}
    /\ nextTimerId = 1
    /\ sessionStorage \in [languageDetectionDone : {"null", "true"},
                           preferredLanguage : {Null, UK}]
    /\ detectionText = InitialText
    /\ detectedSuccess = FALSE
    /\ recommended = {}
    /\ countdownText = -1
    /\ noticeActive = FALSE
    /\ navigations = <<>>
    /\ lastOp = [op |-> "none", effects |-> <<>>]
    /\ intervalRuns = 0
    /\ timeoutRuns = 0
    /\ flagAtInit = "unread"
    /\ cancelAt = "none"
    /\ manualChoice = Null
    /\ unloadRan = FALSE
    /\ flagWrite = "none"
    /\ checklist = ChecklistStart

\* The landing page with every element the script expects
Init ==
    /\ browserLangs \in VisitLangLists
    /\ present = Elements
    /\ InitRest

\* The resolver alone: every bounded list of tags
ResolverInit ==
    /\ browserLangs \in LangLists
    /\ present = Elements
    /\ InitRest

\* A page on which any of the expected elements may be absent
DomInit ==
    /\ browserLangs \in VisitLangLists
    /\ present \in SUBSET Elements
    /\ InitRest

----------------------------------------------------------------------------
(* init() *)

\* startCountdown that schedules the interval only
startCountdown_NoBackup(langCode) ==
    /\ timeLeft' = REDIRECT_COUNTDOWN
    /\ countdownText' = IF "countdown" \in present
                            THEN REDIRECT_COUNTDOWN ELSE countdownText
    /\ noticeActive' = IF CountdownThrows THEN noticeActive ELSE TRUE
    /\ IF CountdownThrows
       THEN UNCHANGED <<countdownInterval, redirectTimeout, timers, nextTimerId>>
       ELSE /\ countdownInterval' = nextTimerId
            /\ redirectTimeout' = 0
            /\ timers' = timers \cup { Timer(nextTimerId, "interval", langCode) }
            /\ nextTimerId' = nextTimerId + 1

\* startCountdown(langCode): lines 103-104 throw on a missing element, and
\* then nothing is scheduled
startCountdown(langCode) ==
    /\ timeLeft' = REDIRECT_COUNTDOWN
    /\ countdownText' = IF "countdown" \in present
                            THEN REDIRECT_COUNTDOWN ELSE countdownText
    /\ noticeActive' = IF CountdownThrows THEN noticeActive ELSE TRUE
    /\ IF CountdownThrows
       THEN UNCHANGED <<countdownInterval, redirectTimeout, timers, nextTimerId>>
       ELSE /\ countdownInterval' = nextTimerId
            /\ redirectTimeout' = nextTimerId + 1
            /\ timers' = timers \cup { Timer(nextTimerId, "interval", langCode),
                                       Timer(nextTimerId + 1, "timeout", langCode) }
            /\ nextTimerId' = nextTimerId + 2

\* updateDetectionUI(langCode): line 82 or line 86 throws on a missing element
updateDetectionUI(langCode) ==
    /\ detectionText' = IF "detectionText" \in present
                            THEN DetectedText(langCode) ELSE detectionText
    /\ detectedSuccess' = IF UpdateUIThrows THEN detectedSuccess ELSE TRUE
    /\ recommended' = IF UpdateUIThrows THEN recommended
                      ELSE recommended \cup { b \in ButtonLangs : b = langCode }

\* init() that does not look at the session flag before detecting
init_NoSessionCheck(readOk, ok) ==
    /\ pc' = IF pc = "start" /\ InitThrows(readOk) THEN "aborted" ELSE "inited"
    /\ IF ~readOk
       THEN /\ flagAtInit' = "threw"
            /\ lastOp' = [op |-> "init", effects |-> <<>>]
            /\ UNCHANGED <<countdownInterval, redirectTimeout, detectedLang,
                           timeLeft, timers, nextTimerId, sessionStorage,
                           detectionText, detectedSuccess, recommended,
                           countdownText, noticeActive, flagWrite>>
       ELSE LET lang == detectBrowserLanguage(browserLangs)
                effects == IF UpdateUIThrows \/ CountdownThrows THEN <<>>
                           ELSE << Effect("countdown", lang, TRUE),
                                   Effect("setFlag", lang, ok) >>
            IN /\ flagAtInit' = sessionStorage.languageDetectionDone
               /\ detectedLang' = lang
               /\ updateDetectionUI(lang)
               /\ IF UpdateUIThrows
                  THEN UNCHANGED <<timeLeft, countdownText, noticeActive,
                                   countdownInterval, redirectTimeout, timers,
                                   nextTimerId>>
                  ELSE startCountdown(lang)
               /\ sessionStorage' = ApplyStorage(sessionStorage, effects)
               /\ flagWrite' = IF effects = <<>> THEN "none"
                               ELSE IF ok THEN "stored" ELSE "failed"
               /\ lastOp' = [op |-> "init", effects |-> effects]
    /\ UNCHANGED <<checklist, present, browserLangs, readyState, navigations,
                   intervalRuns, timeoutRuns, cancelAt, manualChoice,
                   unloadRan>>

\* init() that detects and starts the countdown but never stores the flag
init_FlagNotStored(readOk, ok) ==
    /\ pc' = IF pc = "start" /\ InitThrows(readOk) THEN "aborted" ELSE "inited"
    /\ IF ~readOk
       THEN /\ flagAtInit' = "threw"
            /\ lastOp' = [op |-> "init", effects |-> <<>>]
            /\ UNCHANGED <<countdownInterval, redirectTimeout, detectedLang,
                           timeLeft, timers, nextTimerId, sessionStorage,
                           detectionText, detectedSuccess, recommended,
                           countdownText, noticeActive, flagWrite>>
       ELSE IF sessionStorage.languageDetectionDone = "true"
       THEN /\ flagAtInit' = "true"
            /\ detectionText' = IF "detectionText" \in present
                                    THEN AlreadyDoneText ELSE detectionText
            /\ lastOp' = [op |-> "init", effects |-> <<>>]
            /\ UNCHANGED <<countdownInterval, redirectTimeout, detectedLang,
                           timeLeft, timers, nextTimerId, sessionStorage,
                           detectedSuccess, recommended, countdownText,
                           noticeActive, flagWrite>>
       ELSE LET lang == detectBrowserLanguage(browserLangs)
                effects == IF UpdateUIThrows \/ CountdownThrows THEN <<>>
                           ELSE << Effect("countdown", lang, TRUE),
                                   Effect("setFlag", lang, ok) >>
            IN /\ flagAtInit' = sessionStorage.languageDetectionDone
               /\ detectedLang' = lang
               /\ updateDetectionUI(lang)
               /\ IF UpdateUIThrows
                  THEN UNCHANGED <<timeLeft, countdownText, noticeActive,
                                   countdownInterval, redirectTimeout, timers,
                                   nextTimerId>>
                  ELSE startCountdown(lang)
               /\ sessionStorage' = sessionStorage
               /\ flagWrite' = IF effects = <<>> THEN "none"
                               ELSE IF ok THEN "stored" ELSE "failed"
               /\ lastOp' = [op |-> "init", effects |-> effects]
    /\ UNCHANGED <<checklist, present, browserLangs, readyState, navigations,
                   intervalRuns, timeoutRuns, cancelAt, manualChoice,
                   unloadRan>>

\* init(): readOk is whether sessionStorage.getItem returns (line 169 is not
\* inside a try), ok whether the store accepts the languageDetectionDone
\* write.  An exception ends init() where it is thrown; thrown out of the
\* top-level call of line 228 it also ends the script (pc "aborted").
init(readOk, ok) ==
    /\ pc' = IF pc = "start" /\ InitThrows(readOk) THEN "aborted" ELSE "inited"
    /\ IF ~readOk
       THEN /\ flagAtInit' = "threw"
            /\ lastOp' = [op |-> "init", effects |-> <<>>]
            /\ UNCHANGED <<countdownInterval, redirectTimeout, detectedLang,
                           timeLeft, timers, nextTimerId, sessionStorage,
                           detectionText, detectedSuccess, recommended,
                           countdownText, noticeActive, flagWrite>>
       ELSE IF sessionStorage.languageDetectionDone = "true"
       THEN /\ flagAtInit' = "true"
            /\ detectionText' = IF "detectionText" \in present
                                    THEN AlreadyDoneText ELSE detectionText
            /\ lastOp' = [op |-> "init", effects |-> <<>>]
            /\ UNCHANGED <<countdownInterval, redirectTimeout, detectedLang,
                           timeLeft, timers, nextTimerId, sessionStorage,
                           detectedSuccess, recommended, countdownText,
                           noticeActive, flagWrite>>
       ELSE LET lang == detectBrowserLanguage(browserLangs)
                effects == IF UpdateUIThrows \/ CountdownThrows THEN <<>>
                           ELSE << Effect("countdown", lang, TRUE),
                                   Effect("setFlag", lang, ok) >>
            IN /\ flagAtInit' = sessionStorage.languageDetectionDone
               /\ detectedLang' = lang
               /\ updateDetectionUI(lang)
               /\ IF UpdateUIThrows
                  THEN UNCHANGED <<timeLeft, countdownText, noticeActive,
                                   countdownInterval, redirectTimeout, timers,
                                   nextTimerId>>
                  ELSE startCountdown(lang)
               /\ sessionStorage' = ApplyStorage(sessionStorage, effects)
               /\ flagWrite' = IF effects = <<>> THEN "none"
                               ELSE IF ok THEN "stored" ELSE "failed"
               /\ lastOp' = [op |-> "init", effects |-> effects]
    /\ UNCHANGED <<checklist, present, browserLangs, readyState, navigations,
                   intervalRuns, timeoutRuns, cancelAt, manualChoice,
                   unloadRan>>

\* The script's top-level run: the listeners are registered, then init() is
\* called at once unless the document is still loading.  Line 197 throws when
\* the cancel control is absent, and then nothing at all is registered.
RunScript ==
    /\ pc = "start"
    /\ IF "cancelRedirect" \notin present \/ readyState = "loading"
       THEN /\ pc' = IF "cancelRedirect" \notin present THEN "dead" ELSE "waiting"
            /\ lastOp' = [op |-> "script", effects |-> <<>>]
            /\ UNCHANGED <<checklist, present, flagWrite, browserLangs,
                           readyState, countdownInterval,
                           redirectTimeout, detectedLang, timeLeft, timers,
                           nextTimerId, sessionStorage, detectionText,
                           detectedSuccess, recommended, countdownText,
                           noticeActive, navigations, intervalRuns,
                           timeoutRuns, flagAtInit, cancelAt, manualChoice,
                           unloadRan>>
       ELSE \E readOk \in BOOLEAN : \E ok \in BOOLEAN : init(readOk, ok)

\* init registered for a second load event as well
DOMContentLoaded_AlsoOnLoad ==
    /\ pc \in {"waiting", "inited"}
    /\ ~unloadRan
    /\ \E readOk \in BOOLEAN : \E ok \in BOOLEAN : init(readOk, ok)

\* DOMContentLoaded listener.  A document being unloaded gets no further
\* DOMContentLoaded or click events; only timers that were not cleared may
\* still be run by the host.
DOMContentLoaded ==
    /\ pc = "waiting"
    /\ ~unloadRan
    /\ \E readOk \in BOOLEAN : \E ok \in BOOLEAN : init(readOk, ok)

----------------------------------------------------------------------------
(* Timer callbacks *)

\* the interval callback redirecting one tick early (timeLeft <= 1)
IntervalCallback_RedirectAtOne(t, ok) ==
    LET left == timeLeft - 1
        effects == << Effect("countdown", t.lang, TRUE) >>
                   \o (IF left <= 1 THEN performRedirect(t.lang, ok) ELSE <<>>)
    IN /\ timeLeft' = left
       /\ countdownText' = left
       /\ timers' = IF left <= 1 THEN ClearTimer(timers, countdownInterval)
                                 ELSE timers
       /\ sessionStorage' = ApplyStorage(sessionStorage, effects)
       /\ navigations' = ApplyNavigation(navigations, effects)
       /\ lastOp' = [op |-> "interval", effects |-> effects]
       /\ intervalRuns' = intervalRuns + 1
       /\ UNCHANGED <<checklist, present, flagWrite, browserLangs,
                   readyState, pc, countdownInterval,
                      redirectTimeout, detectedLang, nextTimerId,
                      detectionText, detectedSuccess, recommended,
                      noticeActive, timeoutRuns, flagAtInit, cancelAt,
                      manualChoice, unloadRan>>

\* the interval callback without clearInterval at 0
IntervalCallback_NoClear(t, ok) ==
    LET left == timeLeft - 1
        effects == << Effect("countdown", t.lang, TRUE) >>
                   \o (IF left <= 0 THEN performRedirect(t.lang, ok) ELSE <<>>)
    IN /\ timeLeft' = left
       /\ countdownText' = left
       /\ timers' = timers
       /\ sessionStorage' = ApplyStorage(sessionStorage, effects)
       /\ navigations' = ApplyNavigation(navigations, effects)
       /\ lastOp' = [op |-> "interval", effects |-> effects]
       /\ intervalRuns' = intervalRuns + 1
       /\ UNCHANGED <<checklist, present, flagWrite, browserLangs,
                   readyState, pc, countdownInterval,
                      redirectTimeout, detectedLang, nextTimerId,
                      detectionText, detectedSuccess, recommended,
                      noticeActive, timeoutRuns, flagAtInit, cancelAt,
                      manualChoice, unloadRan>>

\* The setInterval callback (lines 106-114) of the interval t
IntervalCallback(t, ok) ==
    LET left == timeLeft - 1
        effects == << Effect("countdown", t.lang, TRUE) >>
                   \o (IF left <= 0 THEN performRedirect(t.lang, ok) ELSE <<>>)
    IN /\ timeLeft' = left
       /\ countdownText' = left
       /\ timers' = IF left <= 0 THEN ClearTimer(timers, countdownInterval)
                                 ELSE timers
       /\ sessionStorage' = ApplyStorage(sessionStorage, effects)
       /\ navigations' = ApplyNavigation(navigations, effects)
       /\ lastOp' = [op |-> "interval", effects |-> effects]
       /\ intervalRuns' = intervalRuns + 1
       /\ UNCHANGED <<checklist, present, flagWrite, browserLangs,
                   readyState, pc, countdownInterval,
                      redirectTimeout, detectedLang, nextTimerId,
                      detectionText, detectedSuccess, recommended,
                      noticeActive, timeoutRuns, flagAtInit, cancelAt,
                      manualChoice, unloadRan>>

\* The host runs the callback of a scheduled interval
IntervalTick ==
    \E t \in timers : \E ok \in BOOLEAN :
        /\ t.kind = "interval"
        /\ IntervalCallback(t, ok)

\* The setTimeout callback (lines 117-119) of the one-shot timer t
TimeoutCallback(t, ok) ==
    LET effects == performRedirect(t.lang, ok)
    IN /\ timers' = timers \ {t}
       /\ sessionStorage' = ApplyStorage(sessionStorage, effects)
       /\ navigations' = ApplyNavigation(navigations, effects)
       /\ lastOp' = [op |-> "timeout", effects |-> effects]
       /\ timeoutRuns' = timeoutRuns + 1
       /\ UNCHANGED <<checklist, present, flagWrite, browserLangs,
                   readyState, pc, countdownInterval,
                      redirectTimeout, detectedLang, timeLeft, nextTimerId,
                      detectionText, detectedSuccess, recommended,
                      countdownText, noticeActive, intervalRuns, flagAtInit,
                      cancelAt, manualChoice, unloadRan>>

\* The host runs the callback of the scheduled backup timeout
BackupTimeout ==
    \E t \in timers : \E ok \in BOOLEAN :
        /\ t.kind = "timeout"
        /\ TimeoutCallback(t, ok)

----------------------------------------------------------------------------
(* Cancellation *)

\* cancelAutoRedirect that stops the interval and leaves the backup timeout
cancelAutoRedirect_KeepsTimeout ==
    /\ timers' = IF countdownInterval # 0
                      THEN ClearTimer(timers, countdownInterval) ELSE timers
    /\ countdownInterval' = 0
    /\ redirectTimeout' = redirectTimeout
    /\ noticeActive' = IF "autoRedirectNotice" \in present
                           THEN FALSE ELSE noticeActive
    /\ detectionText' = IF CancelThrows THEN detectionText ELSE ManualText

\* cancelAutoRedirect that clears the timers and keeps the handle variables
cancelAutoRedirect_KeepsHandles ==
    /\ timers' = ClearTimer(
                     IF countdownInterval # 0
                         THEN ClearTimer(timers, countdownInterval) ELSE timers,
                     IF redirectTimeout # 0 THEN redirectTimeout ELSE 0)
    /\ countdownInterval' = countdownInterval
    /\ redirectTimeout' = redirectTimeout
    /\ noticeActive' = IF "autoRedirectNotice" \in present
                           THEN FALSE ELSE noticeActive
    /\ detectionText' = IF CancelThrows THEN detectionText ELSE ManualText

\* cancelAutoRedirect(): the timers are cleared first; lines 154 and 157
\* throw on a missing element
cancelAutoRedirect ==
    /\ timers' = ClearTimer(
                     IF countdownInterval # 0
                         THEN ClearTimer(timers, countdownInterval) ELSE timers,
                     IF redirectTimeout # 0 THEN redirectTimeout ELSE 0)
    /\ countdownInterval' = 0
    /\ redirectTimeout' = 0
    /\ noticeActive' = IF "autoRedirectNotice" \in present
                           THEN FALSE ELSE noticeActive
    /\ detectionText' = IF CancelThrows THEN detectionText ELSE ManualText

\* click listener of the cancel control
CancelClick ==
    /\ pc \in {"waiting", "inited", "aborted"}
    /\ ~unloadRan
    /\ cancelAutoRedirect
    /\ cancelAt' = IF Running THEN "cancel" ELSE cancelAt
    /\ lastOp' = [op |-> "cancel", effects |-> <<>>]
    /\ UNCHANGED <<checklist, present, flagWrite, browserLangs,
                   readyState, pc, detectedLang, timeLeft,
                   nextTimerId, sessionStorage, detectedSuccess, recommended,
                   countdownText, navigations, intervalRuns, timeoutRuns,
                   flagAtInit, manualChoice, unloadRan>>

\* the manual click storing the detected code instead of the button's
LanguageButtonClick_StoresDetected(b, ok) ==
    LET effects == << Effect("setPref", detectedLang, ok) >>
    IN /\ cancelAutoRedirect
       /\ sessionStorage' = ApplyStorage(sessionStorage, effects)
       /\ lastOp' = [op |-> "manual", effects |-> effects]
       /\ cancelAt' = IF Running THEN "manual" ELSE cancelAt
       /\ manualChoice' = IF Running THEN b ELSE manualChoice
       /\ UNCHANGED <<checklist, present, flagWrite, browserLangs,
                   readyState, pc, detectedLang, timeLeft,
                      nextTimerId, detectedSuccess, recommended,
                      countdownText, navigations, intervalRuns, timeoutRuns,
                      flagAtInit, unloadRan>>

\* click listener of the .language-btn control whose data-lang is b; when
\* cancelAutoRedirect throws the preference write is not reached
LanguageButtonClick(b, ok) ==
    LET effects == IF CancelThrows THEN <<>>
                   ELSE << Effect("setPref", b, ok) >>
    IN /\ cancelAutoRedirect
       /\ sessionStorage' = ApplyStorage(sessionStorage, effects)
       /\ lastOp' = [op |-> "manual", effects |-> effects]
       /\ cancelAt' = IF Running THEN "manual" ELSE cancelAt
       /\ manualChoice' = IF Running THEN b ELSE manualChoice
       /\ UNCHANGED <<checklist, present, flagWrite, browserLangs,
                   readyState, pc, detectedLang, timeLeft,
                      nextTimerId, detectedSuccess, recommended,
                      countdownText, navigations, intervalRuns, timeoutRuns,
                      flagAtInit, unloadRan>>

LanguageClick ==
    /\ pc \in {"waiting", "inited", "aborted"}
    /\ ~unloadRan
    /\ \E b \in ButtonLangs : \E ok \in BOOLEAN : LanguageButtonClick(b, ok)

----------------------------------------------------------------------------
(* Page unload *)

\* beforeunload listener that clears the interval only
BeforeUnload_IntervalOnly ==
    /\ pc \in {"waiting", "inited"}
    /\ ~unloadRan
    /\ timers' = IF countdownInterval # 0
                      THEN ClearTimer(timers, countdownInterval) ELSE timers
    /\ unloadRan' = TRUE
    /\ lastOp' = [op |-> "unload", effects |-> <<>>]
    /\ UNCHANGED <<checklist, present, flagWrite, browserLangs,
                   readyState, pc, countdownInterval,
                   redirectTimeout, detectedLang, timeLeft, nextTimerId,
                   sessionStorage, detectionText, detectedSuccess,
                   recommended, countdownText, noticeActive, navigations,
                   intervalRuns, timeoutRuns, flagAtInit, cancelAt,
                   manualChoice>>

\* beforeunload listener (lines 234-237); it is registered last, so only
\* when the script ran to its end
BeforeUnload ==
    /\ pc \in {"waiting", "inited"}
    /\ ~unloadRan
    /\ timers' = ClearTimer(
                     IF countdownInterval # 0
                         THEN ClearTimer(timers, countdownInterval) ELSE timers,
                     IF redirectTimeout # 0 THEN redirectTimeout ELSE 0)
    /\ unloadRan' = TRUE
    /\ lastOp' = [op |-> "unload", effects |-> <<>>]
    /\ UNCHANGED <<checklist, present, flagWrite, browserLangs,
                   readyState, pc, countdownInterval,
                   redirectTimeout, detectedLang, timeLeft, nextTimerId,
                   sessionStorage, detectionText, detectedSuccess,
                   recommended, countdownText, noticeActive, navigations,
                   intervalRuns, timeoutRuns, flagAtInit, cancelAt,
                   manualChoice>>

----------------------------------------------------------------------------
(* Specifications *)

Next ==
    \/ RunScript
    \/ DOMContentLoaded
    \/ IntervalTick
    \/ BackupTimeout
    \/ CancelClick
    \/ LanguageClick
    \/ BeforeUnload

Spec == Init /\ [][Next]_vars

\* A scheduled one-shot timeout that is not cleared is eventually run by the
\* host; interval ticks may be delayed or dropped without bound.
LiveSpec == Init /\ [][Next]_vars /\ WF_vars(BackupTimeout)

\* The resolver run by init() on every bounded list of tags
ResolverNext ==
    \/ RunScript
    \/ DOMContentLoaded

ResolverSpec == ResolverInit /\ [][ResolverNext]_vars

\* The same handlers on a page that may lack expected elements
DomSpec == DomInit /\ [][Next]_vars

----------------------------------------------------------------------------
(* Checklist page (main.js): initCheckboxes *)

\* the variables of the language-detection page
controllerVars ==
    <<browserLangs, readyState, pc, countdownInterval, redirectTimeout,
      detectedLang, timeLeft, timers, nextTimerId, sessionStorage,
      detectionText, detectedSuccess, recommended, countdownText,
      noticeActive, navigations, lastOp, intervalRuns, timeoutRuns,
      flagAtInit, cancelAt, manualChoice, unloadRan, present, flagWrite>>

\* JSON.stringify of an object whose values are booleans: one member per
\* own key in insertion order, the value written as the literal true / false
JSONStringify(obj) ==
    [n \in 1..Len(obj) |->
        [key |-> obj[n].key,
         lit |-> IF obj[n].value THEN "true" ELSE "false"]]

\* JSON.parse of such a text
JSONParse(text) ==
    [n \in 1..Len(text) |->
        [key |-> text[n].key, value |-> (text[n].lit = "true")]]

\* localStorage.getItem(storageKey) || '{}'
StoredText(c) == IF c.stored THEN c.json ELSE <<>>

\* truthiness of obj[key]: undefined for a key the object lacks
Truthy(obj, k) == \E n \in 1..Len(obj) : obj[n].key = k /\ obj[n].value

\* obj[key] = v: an own key keeps its place, a new key is added last
SetKey(obj, k, v) ==
    IF \E n \in 1..Len(obj) : obj[n].key = k
    THEN [n \in 1..Len(obj) |->
             IF obj[n].key = k THEN [key |-> k, value |-> v] ELSE obj[n]]
    ELSE Append(obj, [key |-> k, value |-> v])

\* the change listener starting from an empty object instead of the stored
\* entry
ChangeListener_StaleStates(c, i) ==
    LET now == [c.checked EXCEPT ![i] = ~c.checked[i]]
        saved == [n \in 1..0 |-> [key |-> 0, value |-> FALSE]]
    IN [c EXCEPT !.checked = now,
                 !.stored = TRUE,
                 !.json = JSONStringify(SetKey(saved, i, now[i])),
                 !.op = [op |-> "toggle", index |-> i]]

\* The user toggles checkbox i and its change listener runs (lines 92-96)
ChangeListener(c, i) ==
    LET now == [c.checked EXCEPT ![i] = ~c.checked[i]]
        states == JSONParse(StoredText(c))
    IN [c EXCEPT !.checked = now,
                 !.stored = TRUE,
                 !.json = JSONStringify(SetKey(states, i, now[i])),
                 !.op = [op |-> "toggle", index |-> i]]

\* restore that also checks a box whose key the stored entry holds as false
RestoreSaved_AnyStoredKey(c) ==
    LET savedStates == JSONParse(StoredText(c))
    IN [c EXCEPT !.checked = [i \in CheckboxIndex |->
                                 IF \E n \in 1..Len(savedStates) :
                                        savedStates[n].key = i
                                     THEN TRUE ELSE c.checked[i]],
                 !.loaded = TRUE,
                 !.op = [op |-> "load", index |-> 0]]

\* initCheckboxes (lines 77-97): restore, then register the listeners
RestoreSaved(c) ==
    LET savedStates == JSONParse(StoredText(c))
    IN [c EXCEPT !.checked = [i \in CheckboxIndex |->
                                 IF Truthy(savedStates, i)
                                     THEN TRUE ELSE c.checked[i]],
                 !.loaded = TRUE,
                 !.op = [op |-> "load", index |-> 0]]

\* DOMContentLoaded of the checklist page
ChecklistLoad ==
    /\ ~checklist.loaded
    /\ checklist' = RestoreSaved(checklist)
    /\ UNCHANGED controllerVars

\* change event of a checkbox
ChecklistToggle ==
    /\ checklist.loaded
    /\ \E i \in CheckboxIndex : checklist' = ChangeListener(checklist, i)
    /\ UNCHANGED controllerVars

\* The page is left and loaded again: the boxes are as in the markup, the
\* durable entry stays
ChecklistReload ==
    /\ checklist.loaded
    /\ checklist' = [checklist EXCEPT
                         !.checked = ChecklistStart.checked,
                         !.loaded = FALSE,
                         !.op = [op |-> "reload", index |-> 0]]
    /\ UNCHANGED controllerVars

ChecklistInit ==
    /\ browserLangs = <<>>
    /\ present = Elements
    /\ InitRest
    /\ readyState = "loading"
    /\ sessionStorage = [languageDetectionDone |-> "null",
                         preferredLanguage |-> Null]

ChecklistNext ==
    \/ ChecklistLoad
    \/ ChecklistToggle
    \/ ChecklistReload

ChecklistSpec == ChecklistInit /\ [][ChecklistNext]_vars

----------------------------------------------------------------------------
(* Properties of the redirect controller *)

\* init() found the session flag unset and started the countdown
Started == flagAtInit = "null"

\* C1: in a visit whose countdown was started and that no click stopped,
\* at most one navigation is performed, whatever the order in which the
\* interval's final tick and the backup timeout run.
C1_SingleNavigation ==
    (Started /\ cancelAt = "none") => Len(navigations) <= 1

\* C2: once the cancel control has stopped a running countdown, no navigation
\* has happened or happens later, no timer is left scheduled, neither timer
\* callback runs again, the notice is hidden and the detection text is the
\* manual-choice prompt.
C2_CancelStopsEverything ==
    /\ [](cancelAt = "cancel" =>
            /\ navigations = <<>>
            /\ timers = {}
            /\ countdownInterval = 0
            /\ redirectTimeout = 0
            /\ ~noticeActive
            /\ detectionText = ManualText)
    /\ [][cancelAt = "cancel" =>
            /\ intervalRuns' = intervalRuns
            /\ timeoutRuns' = timeoutRuns
            /\ navigations' = navigations]_vars

\* C2 witness: the cancel control was activated at 3 seconds remaining
C2_Witness ==
    /\ cancelAt = "cancel"
    /\ lastOp.op = "cancel"
    /\ timeLeft = 3
    /\ intervalRuns = 2

\* C3: when init() reads languageDetectionDone = 'true', the resolver is not
\* run, no timer is ever scheduled or run, nothing navigates, the countdown
\* notice is never shown, and init() leaves the manual-choice prompt in the
\* detection text.
C3_SessionFlagSkipsDetection ==
    flagAtInit = "true" =>
        /\ detectedLang = Null
        /\ timers = {}
        /\ nextTimerId = 1
        /\ countdownInterval = 0
        /\ redirectTimeout = 0
        /\ intervalRuns = 0
        /\ timeoutRuns = 0
        /\ navigations = <<>>
        /\ ~noticeActive
        /\ countdownText = -1
        /\ detectionText \in {AlreadyDoneText, ManualText}
        /\ (lastOp.op = "init" => detectionText = AlreadyDoneText)

\* C3 witness: init() has just returned early on a set session flag
C3_Witness ==
    /\ flagAtInit = "true"
    /\ pc = "inited"
    /\ lastOp.op = "init"
    /\ sessionStorage.languageDetectionDone = "true"

\* C4: after init() started the countdown, unless a click stops it or the
\* page is unloaded, a navigation to the detected language's page eventually
\* occurs (en.html, uk.html, fa.html for en, uk, fa); only the backup
\* timeout is assumed to fire, interval ticks may never run.
C4_RedirectEventually ==
    Started ~>
        \/ cancelAt # "none"
        \/ unloadRan
        \/ /\ navigations # <<>>
           /\ navigations[1] = (IF detectedLang = EN THEN "en.html"
                                ELSE IF detectedLang = UK THEN "uk.html"
                                ELSE IF detectedLang = FA THEN "fa.html"
                                ELSE Page(detectedLang))

\* C4 witness: the backup timeout navigated to uk.html with no tick run
C4_Witness ==
    /\ Started
    /\ detectedLang = UK
    /\ intervalRuns = 0
    /\ timeoutRuns = 1
    /\ navigations = << "uk.html" >>
    /\ cancelAt = "none"
    /\ ~unloadRan

----------------------------------------------------------------------------
(* Properties of the resolver *)

\* primary subtag of a tag: the lower-cased text before the first hyphen
PrimarySubtag(tag) == SplitFirst(ToLowerCase(tag))

\* the tag's primary subtag is exactly a supported code
ExactTag(tag) == PrimarySubtag(tag) \in {EN, UK, FA}

\* the tag matches the Persian alias rule
PersianAlias(tag) ==
    PrimarySubtag(tag) = PER \/ Includes(ToLowerCase(tag), FARSI)

\* the tag matches the Ukrainian alias rule
UkrainianAlias(tag) == PrimarySubtag(tag) = UKR

\* C5: the resolver returns one of en, uk, fa for every list of tags.
C5_ResultIsSupported ==
    Started => detectedLang \in {EN, UK, FA}

\* index of the first tag of browserLangs with an exact primary subtag
FirstExact ==
    CHOOSE i \in 1..Len(browserLangs) :
        /\ ExactTag(browserLangs[i])
        /\ \A j \in 1..(i-1) : ~ExactTag(browserLangs[j])

\* the tag's primary subtag names a property the table inherits
InheritedName(tag) == PrimarySubtag(tag) \in ObjectPrototypeKeys

\* C6 as stated: whenever some tag has an exact primary subtag, the resolver
\* returns the code of the first such tag, whatever comes before or after.
C6_FirstExactAlways ==
    (Started /\ \E i \in 1..Len(browserLangs) : ExactTag(browserLangs[i]))
        => detectedLang = PrimarySubtag(browserLangs[FirstExact])

\* C6 amended: when some tag has an exact primary subtag, the tags after the
\* first such tag never matter, and the resolver returns that tag's code
\* unless an earlier tag is itself resolved (a Persian or Ukrainian alias, or
\* a primary subtag naming an inherited property of the language table); then
\* the earliest such tag decides: fa for the Persian alias, uk for the
\* Ukrainian alias, the inherited name itself otherwise.
C6_FirstExactUnlessEarlierAlias ==
    (Started /\ \E i \in 1..Len(browserLangs) : ExactTag(browserLangs[i])) =>
        LET earlier == { j \in 1..(FirstExact - 1) :
                            \/ PersianAlias(browserLangs[j])
                            \/ UkrainianAlias(browserLangs[j])
                            \/ InheritedName(browserLangs[j]) }
        IN IF earlier = {}
           THEN detectedLang = PrimarySubtag(browserLangs[FirstExact])
           ELSE LET tag == browserLangs[CHOOSE j \in earlier :
                                            \A k \in earlier : j <= k]
                IN detectedLang =
                       (IF InheritedName(tag) THEN PrimarySubtag(tag)
                        ELSE IF PersianAlias(tag) THEN FA
                        ELSE UK)

\* C6 witness: the first exact tag (UK) follows an unsupported tag and
\* precedes another exact tag, and its code is the result
C6_Witness ==
    /\ Started
    /\ browserLangs = << <<"d","e","-","D","E">>, <<"U","K">>,
                         <<"e","n","-","U","S">> >>
    /\ detectedLang = UK

\* C7: for the first tag of the list, the exact rule is tried first, then the
\* Persian alias (primary subtag per, or farsi anywhere in the tag, any
\* case) giving fa, then the Ukrainian alias (ukr) giving uk.
C7_AliasRules ==
    (Started /\ Len(browserLangs) >= 1) =>
        LET tag == browserLangs[1] IN
        /\ ExactTag(tag) => detectedLang = PrimarySubtag(tag)
        /\ (~ExactTag(tag) /\ PersianAlias(tag)) => detectedLang = FA
        /\ (~ExactTag(tag) /\ ~PersianAlias(tag) /\ UkrainianAlias(tag))
               => detectedLang = UK

\* C8: when no tag of the list matches the exact rule or an alias rule, and
\* for the empty list, the resolver returns en.
C8_DefaultWhenNoMatch ==
    (Started /\ \A i \in 1..Len(browserLangs) :
                   /\ ~ExactTag(browserLangs[i])
                   /\ ~PersianAlias(browserLangs[i])
                   /\ ~UkrainianAlias(browserLangs[i]))
        => detectedLang = EN

----------------------------------------------------------------------------
(* Properties of manual selection and of the preference slot *)

\* C9: the manual click that stops a running countdown attempts to write its
\* own data-lang value to preferredLanguage (stored when the store accepts
\* it), clears both timers and both handles, and no navigation or timer
\* callback happens in that step or later.
C9_ManualSelection ==
    /\ [][(cancelAt = "none" /\ cancelAt' = "manual") =>
            /\ manualChoice' \in ButtonLangs
            /\ lastOp'.op = "manual"
            /\ lastOp'.effects = << Effect("setPref", manualChoice',
                                           lastOp'.effects[1].ok) >>
            /\ (lastOp'.effects[1].ok =>
                    sessionStorage'.preferredLanguage = manualChoice')
            /\ navigations' = navigations]_vars
    /\ [](cancelAt = "manual" =>
            /\ navigations = <<>>
            /\ timers = {}
            /\ countdownInterval = 0
            /\ redirectTimeout = 0)
    /\ [][cancelAt = "manual" =>
            /\ intervalRuns' = intervalRuns
            /\ timeoutRuns' = timeoutRuns
            /\ navigations' = navigations]_vars

\* C9 witness: at 4 seconds remaining a button other than the detected
\* language's was clicked and its code was stored
C9_Witness ==
    /\ cancelAt = "manual"
    /\ lastOp.op = "manual"
    /\ timeLeft = 4
    /\ detectedLang = UK
    /\ manualChoice = FA
    /\ sessionStorage.preferredLanguage = FA

\* C10: every navigation is made by a timer callback that, immediately
\* before navigating, attempted to write the navigation's language code to
\* preferredLanguage; that code is the one resolved at init, the page
\* navigated to is that code's page, and when the write succeeded the slot
\* holds the code at the moment of navigation.
C10_PreferenceBeforeNavigation ==
    /\ [][navigations' # navigations =>
            /\ Len(navigations') = Len(navigations) + 1
            /\ lastOp'.op \in {"interval", "timeout"}
            /\ \E k \in 2..Len(lastOp'.effects) :
                   /\ lastOp'.effects[k].e = "navigate"
                   /\ lastOp'.effects[k-1].e = "setPref"
                   /\ lastOp'.effects[k-1].code = lastOp'.effects[k].code
                   /\ lastOp'.effects[k].code = detectedLang'
                   /\ navigations'[Len(navigations')] =
                          (IF detectedLang' = EN THEN "en.html"
                           ELSE IF detectedLang' = UK THEN "uk.html"
                           ELSE IF detectedLang' = FA THEN "fa.html"
                           ELSE "undefined")
                   /\ (lastOp'.effects[k-1].ok =>
                           sessionStorage'.preferredLanguage = detectedLang')
                   /\ \A m \in 1..Len(lastOp'.effects) :
                          lastOp'.effects[m].e = "navigate" => m = k]_vars

\* C10 witness: the interval's final tick stored fa and navigated to fa.html
C10_Witness ==
    /\ lastOp.op = "interval"
    /\ Len(lastOp.effects) = 3
    /\ lastOp.effects[2] = Effect("setPref", FA, TRUE)
    /\ lastOp.effects[3].e = "navigate"
    /\ navigations = << "fa.html" >>
    /\ sessionStorage.preferredLanguage = FA

----------------------------------------------------------------------------
(* Properties of failure handling *)

\* the last handler attempted a session store write that threw
LastWriteFailed ==
    \E n \in 1..Len(lastOp.effects) :
        lastOp.effects[n].e \in {"setFlag", "setPref"} /\ ~lastOp.effects[n].ok

\* C11: a failing session store write is not fatal: init() with a rejected
\* flag write leaves the countdown started exactly as with an accepted one
\* (5 shown, notice active, both timers scheduled), a redirect whose
\* preference write failed still navigates, and a manual click whose
\* preference write failed has still stopped both timers.
C11_WriteFailureNonFatal ==
    /\ (lastOp.op = "init" /\ flagWrite = "failed") =>
           /\ Running
           /\ timeLeft = REDIRECT_COUNTDOWN
           /\ countdownText = REDIRECT_COUNTDOWN
           /\ noticeActive
           /\ countdownInterval # 0
           /\ redirectTimeout # 0
           /\ detectionText = DetectedText(detectedLang)
    /\ (lastOp.op \in {"interval", "timeout"} /\ LastWriteFailed) =>
           /\ lastOp.effects[Len(lastOp.effects)].e = "navigate"
           /\ navigations # <<>>
    /\ (lastOp.op = "manual" /\ LastWriteFailed) =>
           /\ timers = {}
           /\ countdownInterval = 0
           /\ redirectTimeout = 0
           /\ ~noticeActive

\* C11 witness: both writes failed, the countdown ticked and the backup
\* timeout navigated to uk.html
C11_Witness ==
    /\ flagWrite = "failed"
    /\ sessionStorage.languageDetectionDone = "null"
    /\ intervalRuns = 2
    /\ lastOp.op = "timeout"
    /\ LastWriteFailed
    /\ navigations = << "uk.html" >>

\* C12: when the read of languageDetectionDone throws, init() goes on as if
\* the flag were unset: it resolves the language and starts the countdown.
C12_ReadFailureTolerated ==
    (lastOp.op = "init" /\ flagAtInit = "threw") =>
        /\ detectedLang # Null
        /\ Running

\* C13: with any expected element absent, listener registration and init()
\* still complete and their remaining steps run: the script is not ended by
\* an element access, an init() that found the flag unset schedules the
\* timers and attempts the flag write, and a manual click attempts the
\* preference write.
C13_MissingElementsTolerated ==
    /\ pc # "dead"
    /\ (pc = "aborted" => flagAtInit = "threw")
    /\ (lastOp.op = "init" /\ flagAtInit = "null") =>
           (nextTimerId = 3 /\ flagWrite # "none")
    /\ (lastOp.op = "manual") => lastOp.effects # <<>>

----------------------------------------------------------------------------
(* Properties of the countdown and of teardown *)

\* the last handler navigated
LastNavigated ==
    \E n \in 1..Len(lastOp.effects) : lastOp.effects[n].e = "navigate"

\* C14: the countdown shows 5 when it starts, every interval tick lowers it
\* by exactly 1 and nothing ever raises it; the interval callback redirects
\* on the tick that brings it to 0 and on no other, and that is the fifth.
C14_CountdownSteps ==
    /\ [](Started => /\ countdownText = REDIRECT_COUNTDOWN - intervalRuns
                     /\ countdownText = timeLeft)
    /\ []((lastOp.op = "interval") =>
              /\ (LastNavigated <=> countdownText = 0)
              /\ (LastNavigated <=> intervalRuns = 5))
    /\ [][(~Started /\ Started') => countdownText' = 5]_vars
    /\ [][Started => countdownText' <= countdownText]_vars
    /\ [][intervalRuns' # intervalRuns =>
            /\ intervalRuns' = intervalRuns + 1
            /\ countdownText' = countdownText - 1]_vars

\* C14 witness: the fifth tick brought the countdown to 0 and redirected
C14_Witness ==
    /\ Started
    /\ cancelAt = "none"
    /\ lastOp.op = "interval"
    /\ intervalRuns = 5
    /\ countdownText = 0
    /\ timeoutRuns = 0
    /\ navigations = << "fa.html" >>

----------------------------------------------------------------------------
(* Properties of the session flag and of the timers *)

\* C16: the init() that performs detection stores languageDetectionDone =
\* 'true' when the store accepts the write, the flag is then set before any
\* timer callback of the visit runs, and no later handler changes it.
C16_SessionFlagSetAndKept ==
    /\ [](flagWrite = "stored" => sessionStorage.languageDetectionDone = "true")
    /\ [][(~Started /\ Started' /\ flagWrite' = "stored") =>
            /\ sessionStorage.languageDetectionDone = "null"
            /\ sessionStorage'.languageDetectionDone = "true"
            /\ intervalRuns' = 0
            /\ timeoutRuns' = 0]_vars
    /\ [][((intervalRuns' # intervalRuns \/ timeoutRuns' # timeoutRuns)
              /\ flagWrite = "stored") =>
            sessionStorage.languageDetectionDone = "true"]_vars
    /\ [][sessionStorage.languageDetectionDone = "true" =>
            sessionStorage'.languageDetectionDone = "true"]_vars

\* C16 witness: the flag stored by init() is still set after ticks, a
\* redirect, a manual click and the unload
C16_Witness ==
    /\ flagAtInit = "null"
    /\ flagWrite = "stored"
    /\ sessionStorage.languageDetectionDone = "true"
    /\ intervalRuns = 1
    /\ timeoutRuns = 1
    /\ manualChoice = Null
    /\ sessionStorage.preferredLanguage = EN
    /\ unloadRan

\* C17: in every reachable state at most one interval and at most one
\* backup timeout are scheduled, and the host has handed out at most the two
\* ids of the single startCountdown call.
C17_AtMostOneOfEachTimer ==
    /\ Cardinality({ t \in timers : t.kind = "interval" }) <= 1
    /\ Cardinality({ t \in timers : t.kind = "timeout" }) <= 1
    /\ nextTimerId <= 3

\* C17 witness: both timers scheduled after clicks that came before init()
C17_Witness ==
    /\ Cardinality(timers) = 2
    /\ detectionText # ManualText
    /\ sessionStorage.preferredLanguage = FA
    /\ intervalRuns = 3

\* C19 as stated: after cancelAutoRedirect both handles are null and no
\* timer is scheduled, and a cancellation that is repeated, or made when no
\* countdown was started, or made after a redirect fired, leaves the timer
\* handles, the session flag and the preference slot unchanged.
C19_CancelIdempotentAlways ==
    [][lastOp'.op = "cancel" =>
         /\ countdownInterval' = 0
         /\ redirectTimeout' = 0
         /\ timers' = {}
         /\ ((countdownInterval = 0 /\ redirectTimeout = 0)
                \/ ~Started \/ navigations # <<>>) =>
                /\ countdownInterval' = countdownInterval
                /\ redirectTimeout' = redirectTimeout
                /\ sessionStorage' = sessionStorage]_vars

\* C19 amended: after cancelAutoRedirect both handles are null and no timer
\* is scheduled, whatever the state before, and the session store is never
\* touched; a cancellation that is repeated or made when no countdown was
\* started changes nothing but the presentation (notice hidden, manual
\* prompt); after a redirect fired the handles still hold the used ids, so
\* cancellation nulls them and clears the timer that is still pending.
C19_CancelIdempotent ==
    [][lastOp'.op = "cancel" =>
         /\ countdownInterval' = 0
         /\ redirectTimeout' = 0
         /\ timers' = {}
         /\ sessionStorage' = sessionStorage
         /\ ~noticeActive'
         /\ detectionText' = ManualText
         /\ UNCHANGED <<detectedLang, timeLeft, nextTimerId, countdownText,
                        navigations, intervalRuns, timeoutRuns>>
         /\ ((countdownInterval = 0 /\ redirectTimeout = 0) \/ ~Started) =>
                UNCHANGED <<countdownInterval, redirectTimeout, timers>>
         /\ (Started /\ navigations # <<>> /\ lastOp.op \in {"interval", "timeout"}) =>
                (countdownInterval # 0 /\ redirectTimeout # 0)]_vars

\* C19 witness: a second cancel click, after the first one stopped a
\* countdown at 4 seconds remaining
C19_Witness ==
    /\ lastOp.op = "cancel"
    /\ cancelAt = "cancel"
    /\ timeLeft = 4
    /\ countdownInterval = 0
    /\ redirectTimeout = 0
    /\ timers = {}
    /\ nextTimerId = 3

\* C20: once the countdown started its value is an integer in 0..5 in every
\* reachable state, and no interval is scheduled any more when it is 0, also
\* when the backup timeout ran before the interval finished.
C20_CountdownInRange ==
    /\ Started => /\ countdownText \in 0..REDIRECT_COUNTDOWN
                  /\ timeLeft \in 0..REDIRECT_COUNTDOWN
    /\ ~Started => countdownText = -1
    /\ (Started /\ countdownText = 0) =>
           ~\E t \in timers : t.kind = "interval"

\* C20 witness: the backup timeout ran first, the interval ticked on to 0
C20_Witness ==
    /\ Started
    /\ timeoutRuns = 1
    /\ intervalRuns = 5
    /\ countdownText = 0
    /\ lastOp.op = "interval"
    /\ Len(navigations) = 2

----------------------------------------------------------------------------
(* Properties of the checklist page *)

\* the stored entry holds a value for checkbox-<i>
HasStored(c, i) ==
    \E n \in 1..Len(StoredText(c)) : StoredText(c)[n].key = i

\* the stored entry maps checkbox-<i> to true
StoredTrue(c, i) ==
    \E n \in 1..Len(StoredText(c)) :
        StoredText(c)[n].key = i /\ StoredText(c)[n].lit = "true"

\* C18: every toggle stores the toggled checkbox's new checked state under
\* checkbox-<index> and leaves the entries of the other checkboxes as they
\* were; while the page is loaded every stored entry equals its checkbox's
\* state; and a page load leaves each checkbox checked exactly when its
\* stored value is true.
C18_ChecklistPersistence ==
    /\ [][(checklist'.op.op = "toggle" /\ checklist' # checklist) =>
            LET i == checklist'.op.index IN
            /\ checklist'.checked[i] = ~checklist.checked[i]
            /\ HasStored(checklist', i)
            /\ StoredTrue(checklist', i) = checklist'.checked[i]
            /\ \A j \in CheckboxIndex \ {i} :
                   /\ HasStored(checklist', j) = HasStored(checklist, j)
                   /\ StoredTrue(checklist', j) = StoredTrue(checklist, j)
                   /\ checklist'.checked[j] = checklist.checked[j]]_vars
    /\ [](checklist.loaded =>
            \A i \in CheckboxIndex :
                checklist.checked[i] = StoredTrue(checklist, i))
    /\ [][checklist.loaded /\ ~checklist'.loaded =>
            checklist'.json = checklist.json]_vars

\* C18 witness: a page load after toggles restored box 1 (stored true) as
\* checked and left box 0 (stored false) and box 2 (no entry) unchecked
C18_Witness ==
    /\ checklist.loaded
    /\ checklist.op.op = "load"
    /\ HasStored(checklist, 0) /\ ~StoredTrue(checklist, 0)
    /\ StoredTrue(checklist, 1)
    /\ ~HasStored(checklist, 2)
    /\ checklist.checked[1]
    /\ ~checklist.checked[0]
    /\ ~checklist.checked[2]

====
